---------------------------- MODULE Spec2Model ----------------------------
(***************************************************************************)
(* Model of the davybot desktop host (webui/src-tauri):                    *)
(*   - crash_handler.rs: CrashReport, its on-disk store under              *)
(*     <exe-dir>/crashes (save / get_all_crash_reports /                   *)
(*     clear_all_crash_reports);                                           *)
(*   - crash_handler.rs: the panic hook setup_panic_hook installs;          *)
(*   - main.rs: get_uv_path and the start_backend command.                 *)
(*                                                                         *)
(* A string is a sequence of text pieces; a piece is a single character    *)
(* wherever the code looks inside the string (JSON escaping, the file      *)
(* extension), so that these conversions are computed rather than assumed. *)
(***************************************************************************)
EXTENDS Integers, Sequences, FiniteSets, TLC

VARIABLES
    exeOk,        \* std::env::current_exe() succeeds in this process
    dirExists,    \* <exe-dir>/crashes exists
    files,        \* file name -> content, the entries of <exe-dir>/crashes
    lastOp,       \* the store operation that ran last
    lastOk,       \* whether it returned Ok
    prevOp,       \* after a listing: the operation that ran right before it
    prevOk,       \* and whether that one returned Ok
    saved,        \* {r}: the report handed to the most recent save, kept while
                  \* only listings and clears follow; {} otherwise
    listed,       \* the Vec returned by the last get_all_crash_reports
    host,         \* what start_backend finds on the machine: DAWEI_UV_PATH, the
                  \* files that exist, the search path, the build mode
    spawnCount,   \* backend processes spawned so far in this session
    call,         \* the last start_backend call: what it did and returned
    lastCmd,      \* the supervisor command that ran last
    running,      \* backend processes started and not stopped
    stopMechanism,\* the stop script or signal of this platform is available
    restart,      \* the restart in progress: where it stands, what it has done
    hookInstalled,\* std::panic::set_hook has been called in this process
    stderrOk,     \* the process's stderr accepts writes
    panicCount,   \* panics raised so far
    hook          \* the panic being handled: where the hook stands, the report
                  \* it built, what it has done and written to stderr

storeVars == <<exeOk, dirExists, files, lastOp, lastOk, prevOp, prevOk, saved, listed>>

supervisorVars == <<host, spawnCount, call, lastCmd, running, stopMechanism, restart>>

hookVars == <<hookInstalled, stderrOk, panicCount, hook>>

vars == <<storeVars, supervisorVars, hookVars>>

(***************************************************************************)
(* Bounds of the model.                                                    *)
(***************************************************************************)
MaxTime == 2      \* clock readings are 0..MaxTime seconds since the epoch
MaxFiles == 3     \* entries the crash directory holds at most
MaxSpawns == 2    \* start_backend requests that reach the spawn, per session
MaxPanics == 2    \* panics raised, over the runs of the application

(***************************************************************************)
(* Text.                                                                   *)
(***************************************************************************)
Quote == "\""
Backslash == "\\"

\* serde_json's string escaping, restricted to the characters of the model:
\* a quote becomes \" and a backslash becomes \\ .
RECURSIVE Escape(_)
Escape(s) ==
    IF s = <<>> THEN <<>>
    ELSE LET c == Head(s)
         IN  (IF c = Quote \/ c = Backslash THEN <<Backslash, c>> ELSE <<c>>)
             \o Escape(Tail(s))

\* Whether an escaped text is well formed: no bare quote, every backslash
\* followed by a quote or a backslash.
RECURSIVE WellEscaped(_)
WellEscaped(s) ==
    IF s = <<>> THEN TRUE
    ELSE IF Head(s) = Backslash
         THEN /\ Len(s) >= 2
              /\ s[2] \in {Quote, Backslash}
              /\ WellEscaped(Tail(Tail(s)))
         ELSE Head(s) # Quote /\ WellEscaped(Tail(s))

RECURSIVE Unescape(_)
Unescape(s) ==
    IF s = <<>> THEN <<>>
    ELSE IF Head(s) = Backslash
         THEN <<s[2]>> \o Unescape(Tail(Tail(s)))
         ELSE <<Head(s)>> \o Unescape(Tail(s))

\* Decimal rendering of a u64, one character per digit (values below 10).
Digits(n) == <<ToString(n)>>

IsNumber(s) == \E n \in 0..9 : s = Digits(n)

ParseNumber(s) == CHOOSE n \in 0..9 : s = Digits(n)

(***************************************************************************)
(* CrashReport (crash_handler.rs).                                         *)
(***************************************************************************)
Platform == <<"linux">>                \* std::env::consts::OS
AppVersion == <<"0", ".", "1", ".", "0">>    \* env!("CARGO_PKG_VERSION")

\* chrono's to_rfc3339 of the local time read at second `chrono`.
to_rfc3339(chrono) == <<"T">> \o Digits(chrono) \o <<"+00:00">>

\* format!("crash_{}.json", chrono_now.format("%Y%m%d_%H%M%S"))
FileNameOf(chrono) == <<"crash_">> \o Digits(chrono) \o <<".", "json">>

\* CrashReport::new(error, backtrace).  `now` is the reading of SystemTime::now
\* and `chrono` the later reading of chrono::Local::now, both in seconds.
new(error, backtrace, now, chrono) ==
    [ timestamp     |-> now,
      timestamp_iso |-> to_rfc3339(chrono),
      error_message |-> error,
      backtrace     |-> backtrace,
      platform      |-> Platform,
      app_version   |-> AppVersion,
      filename      |-> FileNameOf(chrono) ]

(***************************************************************************)
(* JSON text.  A text is a sequence of tokens <<name, tag, payload>>:      *)
(*   <<"{", "punct", <<>>>>, <<"}", "punct", <<>>>>   the braces,           *)
(*   <<key, "num", digits>>, <<key, "str", escaped>>  one member each,     *)
(*   <<"\n", "ws", <<>>>>                             white space,         *)
(*   <<"", "junk", <<>>>>                             anything else,       *)
(*   <<"", "bytes", <<>>>>                            bytes that are not   *)
(*                                                    UTF-8.               *)
(***************************************************************************)
Open == <<"{", "punct", <<>>>>
Close == <<"}", "punct", <<>>>>
Newline == <<"\n", "ws", <<>>>>
Junk == <<"", "junk", <<>>>>
Bytes == <<"", "bytes", <<>>>>

NumMember(key, n) == <<key, "num", Digits(n)>>
StrMember(key, s) == <<key, "str", Escape(s)>>

\* The fields of CrashReport, by type, in declaration order.
StrFields == {"timestamp_iso", "error_message", "backtrace", "platform",
              "app_version", "filename"}
NumFields == {"timestamp"}

\* CrashReport::to_json: serde_json::to_string_pretty(self); serialising
\* this struct cannot fail, so the "{}" fallback is never taken.
to_json(r) ==
    << Open,
       NumMember("timestamp", r.timestamp),
       StrMember("timestamp_iso", r.timestamp_iso),
       StrMember("error_message", r.error_message),
       StrMember("backtrace", r.backtrace),
       StrMember("platform", r.platform),
       StrMember("app_version", r.app_version),
       StrMember("filename", r.filename),
       Close >>

\* Trailing white space is accepted by serde_json::from_str.
RECURSIVE TrimEnd(_)
TrimEnd(text) ==
    IF text # <<>> /\ text[Len(text)][2] = "ws"
    THEN TrimEnd(SubSeq(text, 1, Len(text) - 1))
    ELSE text

\* The members between the braces of a text.
Members(text) ==
    LET body == TrimEnd(text)
    IN  SubSeq(body, 2, Len(body) - 1)

\* A member is a valid JSON value.
ValidMember(m) ==
    \/ m[2] = "num" /\ IsNumber(m[3])
    \/ m[2] = "str" /\ WellEscaped(m[3])

Occurrences(ms, key) == {i \in DOMAIN ms : ms[i][1] = key}

\* serde_json::from_str::<CrashReport> returns Ok: the text is one JSON
\* object, every field of the struct occurs exactly once with a value of its
\* type, and unknown keys are ignored.
Parses(text) ==
    LET body == TrimEnd(text)
        ms == SubSeq(body, 2, Len(body) - 1)
    IN  /\ Len(body) >= 2
        /\ Head(body) = Open
        /\ body[Len(body)] = Close
        /\ \A i \in DOMAIN ms : ValidMember(ms[i])
        /\ \A key \in StrFields \cup NumFields :
               /\ Cardinality(Occurrences(ms, key)) = 1
               /\ \A i \in Occurrences(ms, key) :
                      ms[i][2] = (IF key \in NumFields THEN "num" ELSE "str")

Field(ms, key) == ms[CHOOSE i \in Occurrences(ms, key) : TRUE][3]

\* The report a parsable text decodes to.
from_str(text) ==
    LET ms == Members(text)
    IN  [ timestamp     |-> ParseNumber(Field(ms, "timestamp")),
          timestamp_iso |-> Unescape(Field(ms, "timestamp_iso")),
          error_message |-> Unescape(Field(ms, "error_message")),
          backtrace     |-> Unescape(Field(ms, "backtrace")),
          platform      |-> Unescape(Field(ms, "platform")),
          app_version   |-> Unescape(Field(ms, "app_version")),
          filename      |-> Unescape(Field(ms, "filename")) ]

\* fs::read_to_string returns Ok: the content is UTF-8.
ReadsAsString(content) == \A i \in DOMAIN content : content[i][2] # "bytes"

\* Path::extension: the piece after the last ".", when the name has a "."
\* that is not its first piece.
Extension(name) ==
    LET dots == {i \in DOMAIN name : name[i] = "." /\ i > 1}
    IN  IF dots = {} THEN <<>>
        ELSE LET last == CHOOSE i \in dots : \A j \in dots : j <= i
             IN  SubSeq(name, last + 1, Len(name))

(***************************************************************************)
(* The crash store: <exe-dir>/crashes.                                     *)
(***************************************************************************)
NoFiles == [n \in {} |-> <<>>]

Keep(fs, names) == [n \in names |-> fs[n]]

\* Where a save or a clear fails with an I/O error it reports: in
\* create_dir_all, in File::create, in write_all (the file is left truncated),
\* in remove_dir_all.
IoFaults == {"none", "mkdir", "create", "write", "remove"}

\* save with the result of write_all dropped: a truncated file, reported Ok.
saveIgnoringWriteError(r, io) ==
    IF ~exeOk \/ io = "mkdir"
    THEN [ok |-> FALSE, dirExists |-> dirExists, files |-> files]
    ELSE IF io = "create"
    THEN [ok |-> FALSE, dirExists |-> TRUE, files |-> files]
    ELSE IF io = "write"
    THEN [ok |-> TRUE, dirExists |-> TRUE, files |-> (r.filename :> <<>>) @@ files]
    ELSE [ok |-> TRUE, dirExists |-> TRUE,
          files |-> (r.filename :> (to_json(r) \o <<Newline>>)) @@ files]

\* save keeping only the latest report: the directory is emptied first.
saveKeepingLatestOnly(r, io) ==
    IF ~exeOk \/ io = "mkdir"
    THEN [ok |-> FALSE, dirExists |-> dirExists, files |-> files]
    ELSE IF io = "create"
    THEN [ok |-> FALSE, dirExists |-> TRUE, files |-> NoFiles]
    ELSE IF io = "write"
    THEN [ok |-> FALSE, dirExists |-> TRUE, files |-> (r.filename :> <<>>)]
    ELSE [ok |-> TRUE, dirExists |-> TRUE,
          files |-> (r.filename :> (to_json(r) \o <<Newline>>))]

\* CrashReport::save(&self), with the I/O fault `io` striking.  The result is
\* what the call returns and the directory it leaves behind.
save(r, io) ==
    IF ~exeOk
    THEN [ok |-> FALSE, dirExists |-> dirExists, files |-> files]     \* current_exe()?
    ELSE IF io = "mkdir"
    THEN [ok |-> FALSE, dirExists |-> dirExists, files |-> files]     \* create_dir_all?
    ELSE IF io = "create"
    THEN [ok |-> FALSE, dirExists |-> TRUE, files |-> files]          \* File::create?
    ELSE IF io = "write"                                              \* truncated, then
    THEN [ok |-> FALSE, dirExists |-> TRUE,                           \* write_all fails
          files |-> (r.filename :> <<>>) @@ files]
    ELSE [ok |-> TRUE, dirExists |-> TRUE,
          files |-> (r.filename :> (to_json(r) \o <<Newline>>)) @@ files]

\* What one iteration of the loop over the directory entries pushes: the
\* report of a *.json file that reads as a string and parses, else nothing.
Entry(path) ==
    IF /\ Extension(path) = <<"json">>
       /\ ReadsAsString(files[path])
       /\ Parses(files[path])
    THEN <<from_str(files[path])>>
    ELSE <<>>

\* Collect with a failing entry ending the walk instead of being skipped.
RECURSIVE CollectUntilFailure(_, _)
CollectUntilFailure(pushes, order) ==
    IF order = <<>> THEN <<>>
    ELSE LET pushed == (CHOOSE p \in pushes : p[1] = Head(order))[2]
         IN  IF pushed = <<>> THEN <<>>
             ELSE pushed \o CollectUntilFailure(pushes, Tail(order))

\* The reports pushed while walking the directory in the order the file
\* system enumerates it; `pushes` holds <<path, Entry(path)>> of every entry.
RECURSIVE Collect(_, _)
Collect(pushes, order) ==
    IF order = <<>> THEN <<>>
    ELSE (CHOOSE p \in pushes : p[1] = Head(order))[2] \o Collect(pushes, Tail(order))

\* The comparison with its operands swapped: a.timestamp.cmp(&b.timestamp).
InOrderAscending(a, b) == a.timestamp <= b.timestamp

\* b.timestamp.cmp(&a.timestamp) is not Greater: a may stay before b.
InOrder(a, b) == a.timestamp >= b.timestamp

\* One step of a stable sort: r goes after every element that may stay
\* before it.
RECURSIVE InsertSorted(_, _)
InsertSorted(sorted, r) ==
    IF sorted = <<>> THEN <<r>>
    ELSE IF InOrder(Head(sorted), r)
         THEN <<Head(sorted)>> \o InsertSorted(Tail(sorted), r)
         ELSE <<r>> \o sorted

\* reports.sort_by(|a, b| b.timestamp.cmp(&a.timestamp)): a stable sort.
RECURSIVE sort_by(_)
sort_by(reports) ==
    IF reports = <<>> THEN <<>>
    ELSE InsertSorted(sort_by(SubSeq(reports, 1, Len(reports) - 1)),
                      reports[Len(reports)])

\* The orders in which read_dir may enumerate the directory.
RECURSIVE Orders(_)
Orders(names) ==
    IF names = {} THEN {<<>>}
    ELSE UNION {{<<n>> \o o : o \in Orders(names \ {n})} : n \in names}

\* get_all_crash_reports(): the Vec it returns, for each order in which
\* read_dir may enumerate the directory.
get_all_crash_reports ==
    IF exeOk /\ dirExists                 \* get_crashes_dir is Some, read_dir Ok
    THEN LET pushes == {<<n, Entry(n)>> : n \in DOMAIN files}
         IN  {sort_by(Collect(pushes, order)) : order \in Orders(DOMAIN files)}
    ELSE {<<>>}

\* clear_all_crash_reports without the exists() test: remove_dir_all fails on
\* a directory that is not there.
clearWithoutExistsTest(io, kept) ==
    IF ~exeOk
    THEN [ok |-> TRUE, dirExists |-> dirExists, files |-> files]
    ELSE IF ~dirExists
    THEN [ok |-> FALSE, dirExists |-> FALSE, files |-> files]
    ELSE IF io = "remove"
    THEN [ok |-> FALSE, dirExists |-> TRUE, files |-> Keep(files, kept)]
    ELSE [ok |-> TRUE, dirExists |-> FALSE, files |-> NoFiles]

\* clear_all_crash_reports(), with remove_dir_all leaving `kept` behind when
\* the fault "remove" strikes.
clear_all_crash_reports(io, kept) ==
    IF exeOk /\ dirExists
    THEN IF io = "remove"
         THEN [ok |-> FALSE, dirExists |-> TRUE, files |-> Keep(files, kept)]
         ELSE [ok |-> TRUE, dirExists |-> FALSE, files |-> NoFiles]
    ELSE [ok |-> TRUE, dirExists |-> dirExists, files |-> files]

(***************************************************************************)
(* Inputs.                                                                 *)
(***************************************************************************)
Times == 0..MaxTime

ErrorMessages == { <<"p", Quote, Backslash>> }

Backtraces == { <<"0", ":", Backslash>> }

\* The two clock readings of CrashReport::new: the second is taken after the
\* first and may fall in the next second.
ClockReadings == {p \in Times \X Times : p[2] \in {p[1], p[1] + 1}}

\* The reports CrashReport::new can build.
NewReports ==
    { new(e, b, p[1], p[2]) : e \in ErrorMessages, b \in Backtraces, p \in ClockReadings }

\* Files written into the crash directory by something other than save: not
\* JSON at all, bytes that are not UTF-8, a JSON object that lacks a field of
\* CrashReport, and a well-formed report under a name that is not *.json.
ForeignNames == { <<"bad", ".", "json">>, <<"notes", ".", "txt">> }

ForeignContents(name) ==
    IF name = <<"bad", ".", "json">>
    THEN { <<Junk>>,
           <<Bytes>>,
           <<Open, NumMember("timestamp", 1), Close, Newline>> }
    ELSE { to_json(new(<<"p">>, <<>>, 1, 1)) \o <<Newline>> }

(***************************************************************************)
(* Actions of the crash store.                                             *)
(***************************************************************************)
\* The operation that ran and its result; a listing also keeps what ran
\* right before it.
Record(op, ok) ==
    /\ lastOp' = op
    /\ lastOk' = ok
    /\ prevOp' = IF op = "list" THEN lastOp ELSE "none"
    /\ prevOk' = IF op = "list" THEN lastOk ELSE TRUE

\* A report is built and saved (the panic hook's CrashReport::new + save).
Save ==
    \E r \in NewReports, io \in IoFaults \ {"remove"} :
        /\ r.filename \in DOMAIN files \/ Cardinality(DOMAIN files) < MaxFiles
        /\ LET res == save(r, io)
           IN  /\ dirExists' = res.dirExists
               /\ files' = res.files
               /\ Record("save", res.ok)
        /\ saved' = {r}
        /\ listed' = <<>>
        /\ UNCHANGED exeOk

\* The get_crash_reports command.
GetAllCrashReports ==
    /\ listed' \in get_all_crash_reports
    /\ Record("list", TRUE)
    /\ UNCHANGED <<exeOk, dirExists, files, saved>>

\* The clear_crash_reports command.
ClearAllCrashReports ==
    \E io \in {"none", "remove"}, kept \in SUBSET (DOMAIN files) :
        /\ io = "remove" <=> kept # {}
        /\ LET res == clear_all_crash_reports(io, kept)
           IN  /\ dirExists' = res.dirExists
               /\ files' = res.files
               /\ Record("clear", res.ok)
        /\ listed' = <<>>
        /\ UNCHANGED <<exeOk, saved>>

\* Another program writes a file into the crash directory.
ForeignWrite ==
    \E name \in ForeignNames :
        \E content \in ForeignContents(name) :
            /\ dirExists
            /\ name \in DOMAIN files \/ Cardinality(DOMAIN files) < MaxFiles
            /\ files' = (name :> content) @@ files
            /\ Record("foreign", TRUE)
            /\ saved' = {}
            /\ listed' = <<>>
            /\ UNCHANGED <<exeOk, dirExists>>

StoreInit ==
    /\ exeOk \in BOOLEAN
    /\ dirExists \in BOOLEAN
    /\ files = NoFiles
    /\ lastOp = "none"
    /\ lastOk = TRUE
    /\ prevOp = "none"
    /\ prevOk = TRUE
    /\ saved = {}
    /\ listed = <<>>

StoreNext ==
    \/ Save
    \/ GetAllCrashReports
    \/ ClearAllCrashReports
    \/ ForeignWrite

(***************************************************************************)
(* Paths (main.rs).  A path is a sequence of pieces, so that "contains      *)
(* resources/python-env" and "the message contains the path" are computed. *)
(***************************************************************************)
ExeDir == <<"/app">>
ExePath == ExeDir \o <<"/davybot">>                        \* current_exe()
StandaloneUv == ExeDir \o <<"/", "resources/python-env", "/bin/uv">>
StandaloneUvBat == ExeDir \o <<"/", "resources/python-env", "/Scripts/uv.exe">>
BareUv == <<"uv">>                                         \* PathBuf::from("uv")
OverrideUv == <<"/opt", "/uv">>                            \* a value of DAWEI_UV_PATH
OverrideUvTarget == <<"/opt", "/uv-0.5", "/uv">>           \* what that symlink points to
CwdUv == <<"/cwd", "/uv">>                                 \* a file uv in the working directory
WhichUv == <<"/usr/bin", "/uv">>                           \* what `which uv` prints
AgentDir == <<"/home/dev007/ws/davybot-proxy/agent">>
VenvPath == ExeDir \o <<"/", "resources/python-env">>

\* The files whose presence the host decides.
HostFiles == {StandaloneUv, StandaloneUvBat, OverrideUv, CwdUv}

\* text contains sub as a contiguous run of pieces.
Contains(text, sub) ==
    \E i \in 0..(Len(text) - Len(sub)) : SubSeq(text, i + 1, i + Len(sub)) = sub

\* Path::exists.
Exists(path) == path \in host.present

\* Path::canonicalize is Ok.
Canonicalizes(path) ==
    IF path = BareUv THEN CwdUv \in host.present ELSE path \in host.present

\* The canonical form of a path that canonicalizes: relative names are
\* resolved against the working directory, symlinks are followed.
canonicalize(path) ==
    IF path = BareUv THEN CwdUv
    ELSE IF path = OverrideUv THEN OverrideUvTarget
    ELSE path

\* get_uv_path without the search: the candidate is returned as it is when
\* it does not canonicalize.
getUvPathWithoutWhich ==
    LET uv_path ==
            IF host.override # {} THEN CHOOSE p \in host.override : TRUE
            ELSE IF Exists(StandaloneUv) THEN StandaloneUv
            ELSE IF Exists(StandaloneUvBat) THEN StandaloneUvBat
            ELSE BareUv
    IN  IF Canonicalizes(uv_path) THEN canonicalize(uv_path) ELSE uv_path

\* get_uv_path(), on a unix build (a windows build asks `where` instead of
\* `which`).  Called only where current_exe() succeeds or the override is set.
get_uv_path ==
    LET uv_path ==
            IF host.override # {} THEN CHOOSE p \in host.override : TRUE
            ELSE IF Exists(StandaloneUv) THEN StandaloneUv
            ELSE IF Exists(StandaloneUvBat) THEN StandaloneUvBat
            ELSE BareUv
        is_standalone_uv == Contains(uv_path, <<"resources/python-env">>)
    IN  IF is_standalone_uv
        THEN IF Canonicalizes(uv_path) THEN canonicalize(uv_path) ELSE uv_path
        ELSE IF Canonicalizes(uv_path) THEN canonicalize(uv_path)
        ELSE IF host.whichOk THEN WhichUv
        ELSE uv_path

(***************************************************************************)
(* start_backend (main.rs).                                                *)
(***************************************************************************)
\* {:?} of a path.
Debug(path) == <<Quote>> \o path \o <<Quote>>

\* logs.join("\n")
RECURSIVE Join(_)
Join(lines) ==
    IF lines = <<>> THEN <<>>
    ELSE IF Len(lines) = 1 THEN lines[1]
    ELSE lines[1] \o <<"\n">> \o Join(Tail(lines))

\* Display of the io::Error a failed spawn returns.
NotFound == <<"No such file or directory (os error 2)">>
PermissionDenied == <<"Permission denied (os error 13)">>

\* The program the OS would run for Command::new(path): a bare name is looked
\* up on the search path.
Launchable(path) ==
    \/ path = BareUv /\ host.uvOnPath
    \/ path = WhichUv /\ host.uvOnPath
    \/ path \in host.present
    \/ path = OverrideUvTarget /\ OverrideUv \in host.present

\* spawn behind a guard that refuses a second backend.
spawnUnlessRunning(uv_path, fault) ==
    IF spawnCount > 0 THEN <<"backend already running">>
    ELSE IF ~Launchable(uv_path) THEN NotFound
    ELSE IF host.isDev /\ ~host.agentDir THEN NotFound
    ELSE IF fault = "denied" THEN PermissionDenied
    ELSE <<>>

\* Command::new(&uv_path)...current_dir(dir).spawn(): <<>> when the child is
\* started, else the io::Error.  `fault` is an OS-level refusal.
spawn(uv_path, fault) ==
    IF ~Launchable(uv_path) THEN NotFound
    ELSE IF host.isDev /\ ~host.agentDir THEN NotFound      \* current_dir is missing
    ELSE IF fault = "denied" THEN PermissionDenied
    ELSE <<>>

\* The log lines pushed before the spawn (lines 191-238).
StepLogs(uv_path) ==
    << <<"[start_backend] Starting backend server...">>,
       <<"[start_backend] UV path: ">> \o Debug(uv_path),
       <<"[start_backend] Executable location: ">> \o Debug(ExePath) >>
    \o (IF host.isDev
        THEN << <<"[start_backend] Detected dev mode">>,
                <<"[start_backend] Working directory: ">> \o Debug(AgentDir),
                <<"[start_backend] Full command: ">> \o uv_path
                    \o <<" run --directory ">> \o AgentDir \o <<" dawei server start">> >>
        ELSE << <<"[start_backend] Detected standalone mode">>,
                <<"[start_backend] Working directory: ">> \o Debug(ExeDir),
                <<"[start_backend] Environment: ", "VIRTUAL_ENV=">> \o VenvPath,
                <<"[start_backend] Full command: ">> \o uv_path
                    \o <<" run dawei server start">> >>)

\* complete with the emit error propagated (app.emit(..)?) instead of logged.
completeFailingOnEmit(logs, error, emitOk) ==
    LET last == IF error = <<>>
                THEN <<"[start_backend] Backend process started successfully (PID: ">>
                         \o Digits(spawnCount + 1) \o <<")">>
                ELSE <<"[start_backend] Failed to start backend: ">> \o error
        all == Append(logs, last)
    IN  [ kind |-> IF error = <<>> /\ emitOk THEN "Ok" ELSE "Err",
          text |-> IF ~emitOk THEN <<"failed to emit event">>
                   ELSE IF error = <<>> THEN Join(all) ELSE last,
          logs |-> all,
          events |-> << <<"emit", "app-log", Join(all)>>, <<"return">> >>,
          delivered |-> emitOk, spawned |-> error = <<>> ]

\* match result (lines 240-264): the last line is pushed, the joined log is
\* emitted as app-log, and the call returns.  `error` is <<>> for Ok(child);
\* `emitOk` is whether app.emit succeeded.
complete(logs, error, emitOk) ==
    IF error = <<>>
    THEN LET all == Append(logs,
                       <<"[start_backend] Backend process started successfully (PID: ">>
                           \o Digits(spawnCount + 1) \o <<")">>)
             log_message == Join(all)
         IN  [ kind |-> "Ok", text |-> log_message, logs |-> all,
               events |-> << <<"emit", "app-log", log_message>>, <<"return">> >>,
               delivered |-> emitOk, spawned |-> TRUE ]
    ELSE LET error_msg == <<"[start_backend] Failed to start backend: ">> \o error
             all == Append(logs, error_msg)
             log_message == Join(all)
         IN  [ kind |-> "Err", text |-> error_msg, logs |-> all,
               events |-> << <<"emit", "app-log", log_message>>, <<"return">> >>,
               delivered |-> emitOk, spawned |-> FALSE ]

\* No call yet, or one that panicked on current_exe().unwrap() before it
\* logged, emitted or returned anything.
NoCall(kind) ==
    [ kind |-> kind, text |-> <<>>, logs |-> <<>>, events |-> <<>>,
      delivered |-> FALSE, spawned |-> FALSE, uv_path |-> <<>> ]

\* start_backend(app).
start_backend(emitOk, fault) ==
    IF ~exeOk
    THEN NoCall("panic")
    ELSE LET uv_path == get_uv_path
         IN  complete(StepLogs(uv_path), spawn(uv_path, fault), emitOk) @@ [uv_path |-> uv_path]

\* The start_backend command.
StartBackend ==
    \E emitOk \in BOOLEAN, fault \in {"none", "denied"} :
        /\ spawnCount < MaxSpawns
        /\ LET res == start_backend(emitOk, fault)
           IN  /\ call' = res
               /\ spawnCount' = IF res.spawned THEN spawnCount + 1 ELSE spawnCount
               /\ running' = IF res.spawned THEN running + 1 ELSE running
        /\ lastCmd' = "start_backend"
        /\ UNCHANGED <<host, stopMechanism, restart, storeVars>>

\* The machines start_backend may run on.
Hosts ==
    { [ override |-> o, present |-> p, uvOnPath |-> w[1], whichOk |-> w[2],
        isDev |-> d[1], agentDir |-> d[2] ] :
        o \in {{}, {OverrideUv}},
        p \in SUBSET HostFiles,
        w \in {<<FALSE, FALSE>>, <<TRUE, FALSE>>, <<TRUE, TRUE>>},
        d \in {<<FALSE, FALSE>>, <<TRUE, FALSE>>, <<TRUE, TRUE>>} }

(***************************************************************************)
(* stop_backend and restart_backend, as section 4.2 of the specification   *)
(* describes them: this main.rs registers neither command.                 *)
(***************************************************************************)
\* stop(): a missing stop mechanism is an error, and so is a stop with no
\* backend process to stop; otherwise the backend is stopped.
stop ==
    IF ~stopMechanism THEN [ok |-> FALSE, running |-> running]
    ELSE IF running = 0 THEN [ok |-> FALSE, running |-> running]
    ELSE [ok |-> TRUE, running |-> 0]

\* restart() that goes on to start() whatever stop() returned.
after_stop_unchecked(stopped) ==
    [pc |-> "cooldown", trace |-> <<IF stopped THEN "stop:Ok" ELSE "stop:Err">>]

\* What restart() does once stop() has returned: on Ok it goes on to the
\* cool-down, on Err it returns that error.
after_stop(stopped) ==
    IF stopped
    THEN [pc |-> "cooldown", trace |-> <<"stop:Ok">>]
    ELSE [pc |-> "idle", trace |-> <<"stop:Err", "return:Err">>]

\* The stop_backend command.
StopBackend ==
    /\ restart.pc = "idle"
    /\ running' = stop.running
    /\ lastCmd' = IF stop.ok THEN "stop_backend:Ok" ELSE "stop_backend:Err"
    /\ UNCHANGED <<host, spawnCount, call, stopMechanism, restart, storeVars>>

\* restart(), first part: stop() is called.
RestartStop ==
    /\ restart.pc = "idle"
    /\ running' = stop.running
    /\ restart' = after_stop(stop.ok)
    /\ lastCmd' = "restart_backend"
    /\ UNCHANGED <<host, spawnCount, call, stopMechanism, storeVars>>

\* restart(), second part: the cool-down delay has passed and start() is
\* called; its result is what restart() returns.
RestartStart ==
    \E emitOk \in BOOLEAN, fault \in {"none", "denied"} :
        /\ restart.pc = "cooldown"
        /\ spawnCount < MaxSpawns
        /\ LET res == start_backend(emitOk, fault)
           IN  /\ call' = res
               /\ spawnCount' = IF res.spawned THEN spawnCount + 1 ELSE spawnCount
               /\ running' = IF res.spawned THEN running + 1 ELSE running
               /\ restart' = [pc |-> "idle",
                              trace |-> restart.trace \o <<"delay", "start", IF res.kind = "Ok" THEN "return:Ok" ELSE "return:Err">>]
        /\ lastCmd' = "restart_backend"
        /\ UNCHANGED <<host, stopMechanism, storeVars>>

SupervisorIdle ==
    /\ spawnCount = 0
    /\ running = 0
    /\ call = NoCall("none")
    /\ lastCmd = "none"
    /\ restart = [pc |-> "idle", trace |-> <<>>]

SupervisorInit ==
    /\ host \in Hosts
    /\ SupervisorIdle

(***************************************************************************)
(* The panic hook (crash_handler.rs, setup_panic_hook).                    *)
(***************************************************************************)
\* What a panic carries: the payload, by its type, and the location
\* (an Option: the empty set is None).
Payloads ==
    { [type |-> "&str", text |-> <<"p", Quote, Backslash>>],
      [type |-> "String", text |-> <<"q">>],
      [type |-> "other", text |-> <<>>] }

Locations == { {}, {<<"src/main.rs", ":", "190", ":", "20">>} }

\* The downcasts of the payload: a &str, a String, else the placeholder.
error_msg(payload) ==
    IF payload.type = "&str" THEN payload.text
    ELSE IF payload.type = "String" THEN payload.text
    ELSE <<"Unknown panic">>

\* format!("Panic at {}: {}", loc, error_msg) when there is a location.
full_error(location, msg) ==
    IF location # {}
    THEN <<"Panic at ">> \o (CHOOSE l \in location : TRUE) \o <<": ">> \o msg
    ELSE msg

\* CrashReport::format_display(&self).
format_display(r) ==
    <<"Error: ">> \o r.error_message
        \o <<"\nPlatform: ">> \o r.platform
        \o <<"\nVersion: ">> \o r.app_version
        \o <<"\nTime: ">> \o r.timestamp_iso
        \o <<"\n\nBacktrace:\n">> \o r.backtrace

\* "=".repeat(60)
Rule == <<"============================================================">>

\* The five eprintln! calls that end the hook, one line of output each (the
\* emoji that open some of the hook's lines are left out of the texts).
Dump(r) ==
    << <<"\n">> \o Rule,
       <<"APPLICATION PANIC">>,
       Rule,
       format_display(r),
       Rule \o <<"\n">> >>

\* The line save prints before it returns Ok: the path with {:?}.
SavedLine(r) ==
    <<"Crash report saved to: ">> \o Debug(ExeDir \o <<"/crashes/">> \o r.filename)

\* Display of the io::Error a failed save returns.
SaveError(io) ==
    IF ~exeOk THEN NotFound
    ELSE IF io = "write" THEN <<"No space left on device (os error 28)">>
    ELSE PermissionDenied

\* The line the hook prints when save returned Err(e).
FailedLine(e) == <<"Failed to save crash report: ">> \o e

\* eprintln!(line): the line is appended to stderr, or, when the write fails,
\* the macro panics ("failed printing to stderr").
eprintln(out, line) ==
    IF stderrOk
    THEN [ok |-> TRUE, out |-> Append(out, line)]
    ELSE [ok |-> FALSE, out |-> out]

\* No panic is being handled.
HookIdle == [pc |-> "idle", report |-> {}, trace |-> <<>>, out |-> <<>>, line |-> 0]

\* A panic inside the hook, after the steps `done`: the runtime aborts the
\* process without running the hook again.
Aborted(done) == [hook EXCEPT !.pc = "aborted", !.trace = @ \o done \o <<"abort">>]

\* setup_panic_hook(): the closure becomes the process's hook; a second call
\* replaces it by the same closure.
SetupPanicHook ==
    /\ hook.pc = "idle"
    /\ ~hookInstalled
    /\ hookInstalled' = TRUE
    /\ UNCHANGED <<stderrOk, panicCount, hook, storeVars, supervisorVars>>

\* A thread panics.  With the hook installed the closure starts: message,
\* location, backtrace, CrashReport::new.  Without it the default hook runs
\* and the thread unwinds.
Panic ==
    \E payload \in Payloads, location \in Locations,
       backtrace \in Backtraces, p \in ClockReadings :
        LET r == new(full_error(location, error_msg(payload)), backtrace, p[1], p[2])
        IN  /\ hook.pc \in {"idle", "unwinding"}
            /\ panicCount < MaxPanics
            /\ panicCount' = panicCount + 1
            /\ hook' = IF hookInstalled
                       THEN [pc |-> "save", report |-> {r}, trace |-> <<"build">>,
                             out |-> <<>>, line |-> 0]
                       ELSE [HookIdle EXCEPT !.pc = "unwinding"]
            /\ UNCHANGED <<hookInstalled, stderrOk, storeVars, supervisorVars>>

\* The hook calls report.save(): save prints its line when it succeeds, the
\* hook prints the failure when it does not.
HookSave ==
    \E io \in IoFaults \ {"remove"} :
        /\ hook.pc = "save"
        /\ LET r == CHOOSE x \in hook.report : TRUE
               res == save(r, io)
               e == eprintln(hook.out, IF res.ok THEN SavedLine(r)
                                         ELSE FailedLine(SaveError(io)))
               attempt == IF res.ok THEN <<"save:Ok">> ELSE <<"save:Err">>
           IN  /\ dirExists' = res.dirExists
               /\ files' = res.files
               /\ Record("save", res.ok /\ e.ok)
               /\ saved' = {r}
               /\ hook' = IF ~e.ok
                          THEN Aborted(attempt)
                          ELSE [hook EXCEPT !.pc = "dump", !.line = 1, !.out = e.out,
                                            !.trace = @ \o attempt
                                                \o (IF res.ok THEN <<>> ELSE <<"logged">>)]
        /\ listed' = <<>>
        /\ UNCHANGED <<exeOk, hookInstalled, stderrOk, panicCount, supervisorVars>>

\* One of the five eprintln! calls of the dump.
HookDumpLine ==
    /\ hook.pc = "dump"
    /\ LET r == CHOOSE x \in hook.report : TRUE
           e == eprintln(hook.out, Dump(r)[hook.line])
       IN  hook' = IF ~e.ok THEN Aborted(<<>>)
                   ELSE IF hook.line < Len(Dump(r))
                   THEN [hook EXCEPT !.line = @ + 1, !.out = e.out]
                   ELSE [hook EXCEPT !.pc = "return", !.line = 0, !.out = e.out,
                                     !.trace = @ \o <<"dump">>]
    /\ UNCHANGED <<hookInstalled, stderrOk, panicCount, storeVars, supervisorVars>>

\* The closure returns and the runtime goes on to unwind the thread.
HookReturn ==
    /\ hook.pc = "return"
    /\ hook' = [hook EXCEPT !.pc = "unwinding", !.trace = @ \o <<"return">>]
    /\ UNCHANGED <<hookInstalled, stderrOk, panicCount, storeVars, supervisorVars>>

\* stderr stops accepting writes: the reader of the pipe has gone, the disk
\* holding the log file is full.
StderrBreaks ==
    /\ stderrOk
    /\ hook.pc # "aborted"
    /\ stderrOk' = FALSE
    /\ UNCHANGED <<hookInstalled, panicCount, hook, storeVars, supervisorVars>>

\* The process has ended (the panic was on the main thread, or the runtime
\* aborted) and the application is started again: the crash directory is
\* what the previous run left.
Relaunch ==
    /\ hook.pc \in {"unwinding", "aborted"}
    /\ hook' = HookIdle
    /\ hookInstalled' = FALSE
    /\ stderrOk' \in BOOLEAN
    /\ exeOk' \in BOOLEAN
    /\ Record("none", TRUE)
    /\ saved' = {}
    /\ listed' = <<>>
    /\ UNCHANGED <<dirExists, files, panicCount, supervisorVars>>

HookInit ==
    /\ hookInstalled = FALSE
    /\ stderrOk = TRUE
    /\ panicCount = 0
    /\ hook = HookIdle

(***************************************************************************)
(* Specifications.  The crash store and the supervisor share no state but  *)
(* current_exe(); each is explored on its own.                             *)
(***************************************************************************)
\* One machine, for the runs of the crash store.
PlainHost ==
    [ override |-> {}, present |-> {}, uvOnPath |-> TRUE, whichOk |-> TRUE,
      isDev |-> FALSE, agentDir |-> FALSE ]

Init ==
    /\ StoreInit
    /\ host = PlainHost
    /\ stopMechanism = TRUE
    /\ SupervisorIdle
    /\ HookInit

Next == StoreNext /\ UNCHANGED <<supervisorVars, hookVars>>

Spec == Init /\ [][Next]_vars

SupervisorSpecInit ==
    /\ StoreInit
    /\ ~dirExists
    /\ stopMechanism = TRUE
    /\ SupervisorInit
    /\ HookInit

SupervisorNext == StartBackend /\ UNCHANGED hookVars

SupervisorSpec == SupervisorSpecInit /\ [][SupervisorNext]_vars

\* The supervisor with the stop and restart commands of section 4.2.
RestartSpecInit ==
    /\ StoreInit
    /\ ~dirExists
    /\ stopMechanism \in BOOLEAN
    /\ host \in {h \in Hosts : h.override = {} /\ ~h.isDev}
    /\ SupervisorIdle
    /\ HookInit

RestartNext ==
    /\ \/ StartBackend
       \/ StopBackend
       \/ RestartStop
       \/ RestartStart
    /\ UNCHANGED hookVars

RestartSpec == RestartSpecInit /\ [][RestartNext]_vars

\* The panic hook over the crash store, across runs of the application.
HookSpecInit ==
    /\ StoreInit
    /\ host = PlainHost
    /\ stopMechanism = TRUE
    /\ SupervisorIdle
    /\ hookInstalled = FALSE
    /\ hook = HookIdle
    /\ panicCount = 0
    /\ stderrOk \in BOOLEAN

HookNext ==
    \/ SetupPanicHook
    \/ Panic
    \/ HookSave
    \/ HookDumpLine
    \/ HookReturn
    \/ StderrBreaks
    \/ Relaunch

HookSpec == HookSpecInit /\ [][HookNext]_vars

(***************************************************************************)
(* Properties of the crash store.                                          *)
(***************************************************************************)

\* Every report with the file content a successful save gives it.
Serialised == {<<r, to_json(r) \o <<Newline>>>> : r \in NewReports}

\* The *.json entries whose content is a serialised report, as save writes it.
ReportFiles ==
    {n \in DOMAIN files :
        /\ Extension(n) = <<"json">>
        /\ \E p \in Serialised : p[2] = files[n]}

\* The report a report file holds.
ReportIn(n) == (CHOOSE p \in Serialised : p[2] = files[n])[1]

\* How often r occurs in the list s.
Count(s, r) == Cardinality({i \in DOMAIN s : s[i] = r})

\* C2: when save(r) returned Ok and get_all_crash_reports runs right after it,
\* the returned list holds a report equal to r in every field.
C2_SaveThenListIncludes ==
    (lastOp = "list" /\ prevOp = "save" /\ prevOk)
        => \A r \in saved : \E i \in DOMAIN listed : listed[i] = r

C2_Witness ==
    /\ lastOp = "list" /\ prevOp = "save" /\ prevOk
    /\ saved # {}
    /\ Len(listed) >= 2
    /\ \E r \in saved : r.error_message = <<"p", Quote, Backslash>> /\ Count(listed, r) = 1

\* C3 as claimed: in every save or listing, each stored report stays in its
\* file unchanged, so only clear_all removes or replaces a stored report.
C3_OnlyClearRemoves ==
    [][ lastOp' \in {"save", "list"} =>
            \A n \in ReportFiles : n \in DOMAIN files' /\ files'[n] = files[n] ]_vars

\* C3 amended: a stored report stays in its file unchanged, and every listing
\* returns it, until a clear_all runs or a later save is handed a report with
\* the same file name (one built in the same second), which overwrites or
\* truncates it; a save leaves every other stored report alone.
C3_StoredUntilClearOrSameName ==
    [][ lastOp' \in {"save", "list"} =>
            \A n \in ReportFiles :
                /\ (lastOp' = "save" /\ \E r \in saved' : r.filename = n)
                   \/ (n \in DOMAIN files' /\ files'[n] = files[n])
                /\ lastOp' = "list" => \E i \in DOMAIN listed' : listed'[i] = ReportIn(n) ]_vars

C3_Witness ==
    /\ lastOp = "list" /\ prevOp = "save" /\ prevOk
    /\ Cardinality(ReportFiles) = 3
    /\ \A n \in ReportFiles : Count(listed, ReportIn(n)) = 1

\* C4: the list get_all_crash_reports returns is sorted by timestamp,
\* descending: no report is followed by one with a greater timestamp.
C4_ListSortedDescending ==
    lastOp = "list" =>
        \A i \in 1..(Len(listed) - 1) : listed[i].timestamp >= listed[i + 1].timestamp

C4_Witness ==
    /\ lastOp = "list"
    /\ Len(listed) = 3
    /\ listed[1].timestamp = 2 /\ listed[2].timestamp = 1 /\ listed[3].timestamp = 0

\* C5: get_all_crash_reports returns exactly the reports of the valid report
\* files, each once, whatever corrupt or foreign files lie next to them.
C5_ListSkipsUnparsable ==
    (lastOp = "list" /\ exeOk) =>
        /\ Len(listed) = Cardinality(ReportFiles)
        /\ \A n \in ReportFiles :
               Count(listed, ReportIn(n)) =
                   Cardinality({m \in ReportFiles : ReportIn(m) = ReportIn(n)})

C5_Witness ==
    /\ lastOp = "list"
    /\ Cardinality(DOMAIN files \ ReportFiles) = 1
    /\ Cardinality(ReportFiles) = 2
    /\ Len(listed) = 2

\* C6: a listing right after a clear_all that returned Ok is empty, and
\* clear_all returns Ok when the crash directory does not exist.
C6_ClearThenListEmpty ==
    [][ /\ (lastOp' = "list" /\ lastOp = "clear" /\ lastOk) => listed' = <<>>
        /\ (lastOp' = "clear" /\ ~dirExists) => lastOk' ]_vars

C6_Witness ==
    /\ lastOp = "list" /\ prevOp = "clear" /\ prevOk
    /\ exeOk /\ ~dirExists
    /\ saved # {}
    /\ listed = <<>>

(***************************************************************************)
(* Properties of the supervisor.                                           *)
(***************************************************************************)
Completed == lastCmd = "start_backend" /\ call.kind \in {"Ok", "Err"}

FailurePrefix == <<"[start_backend] Failed to start backend: ">>

\* C1: when the package-manager path start_backend resolved does not exist
\* and the spawn fails, the returned error string contains that path, and the
\* call records no backend process.
C1_ErrorNamesPath ==
    (Completed /\ call.kind = "Err" /\ ~Launchable(call.uv_path))
        => Contains(call.text, call.uv_path) /\ ~call.spawned

NoOverrideNoBundle ==
    /\ host.override = {}
    /\ ~Exists(StandaloneUv)
    /\ ~Exists(StandaloneUvBat)

\* C9 as claimed: with no DAWEI_UV_PATH and no bundled uv, get_uv_path
\* returns the bare command name "uv".
C9_FallsBackToBareName ==
    (Completed /\ NoOverrideNoBundle) => call.uv_path = BareUv

\* C9 amended: with no DAWEI_UV_PATH and no bundled uv, get_uv_path takes the
\* bare name "uv" as candidate and returns the canonical path of a file uv in
\* the working directory when there is one, else the path `which uv` prints
\* when it succeeds, and the bare name only when both fail.
C9_BareNameOnlyWhenUnresolved ==
    (Completed /\ NoOverrideNoBundle) =>
        call.uv_path = (IF Exists(CwdUv) THEN CwdUv
                        ELSE IF host.whichOk THEN WhichUv
                        ELSE BareUv)

C9_Witness ==
    /\ Completed /\ NoOverrideNoBundle
    /\ call.uv_path = BareUv
    /\ call.kind = "Ok"

C8_RestartStartsOnlyAfterStop ==
    /\ \A i \in DOMAIN restart.trace :
           restart.trace[i] = "start" =>
               i = 3 /\ restart.trace[1] = "stop:Ok" /\ restart.trace[2] = "delay"
    /\ (restart.trace # <<>> /\ restart.trace[1] = "stop:Err") =>
           restart.trace = <<"stop:Err", "return:Err">> /\ restart.pc = "idle"
    /\ restart.pc = "cooldown" => restart.trace = <<"stop:Ok">>

C8_Witness ==
    /\ restart.trace = <<"stop:Ok", "delay", "start", "return:Ok">>
    /\ spawnCount = 2 /\ running = 1

(***************************************************************************)
(* Properties of the panic hook.                                           *)
(***************************************************************************)
IsPrefix(s, t) == Len(s) <= Len(t) /\ SubSeq(t, 1, Len(s)) = s

\* The steps of the hook when save returns Ok, and when it returns Err.
StepsSaved == <<"build", "save:Ok", "dump", "return">>

StepsSaveFailed == <<"build", "save:Err", "logged", "dump", "return">>

\* The hook has written the whole dump of its report, as the last lines of
\* its output.
DumpEmitted ==
    \E r \in hook.report :
        /\ Len(hook.out) >= Len(Dump(r))
        /\ SubSeq(hook.out, Len(hook.out) - Len(Dump(r)) + 1, Len(hook.out)) = Dump(r)

\* The hook of an intercepted panic has done its steps in order so far, and
\* once it is at its end it has emitted the dump and returned to the
\* runtime's unwinding.
HookInOrder ==
    /\ IsPrefix(hook.trace, StepsSaved) \/ IsPrefix(hook.trace, StepsSaveFailed)
    /\ hook.pc \in {"return", "unwinding"} => DumpEmitted
    /\ hook.pc = "unwinding" => hook.trace \in {StepsSaved, StepsSaveFailed}

\* C11: while the hook is installed, every intercepted panic goes through
\* build report, attempt save, emit the dump to stderr, return to the normal
\* panic termination, in this order; a failed save is only logged, the dump
\* is still emitted, and the hook itself never fails (no panic inside the
\* hook, no abort in place of the normal termination).
C11_HookNeverFails ==
    hook.report # {} => (hook.pc # "aborted" /\ HookInOrder)

\* What the hook does keep: it departs from its steps only by the abort that
\* follows a failed write to stderr, whatever save returned.
HookFailsOnlyOnStderr ==
    hook.report # {} =>
        /\ hook.pc = "aborted" => ~stderrOk
        /\ hook.pc # "aborted" => HookInOrder

\* A save that failed and was swallowed: the dump is out and the hook returned.
HookSwallowedSaveFailure ==
    /\ hook.pc = "unwinding"
    /\ hook.trace = StepsSaveFailed
    /\ DumpEmitted
    /\ ~lastOk

=============================================================================
